---- MODULE Spec2Model ----
(***************************************************************************)
(* Employee CRUD API of goBack/main.go over the three MongoDB collections  *)
(* Employee, Department and Developers, with the in-process id allocator   *)
(* (idCounter guarded by idMu).                                            *)
(*                                                                         *)
(* A collection is a sequence of documents in natural (insertion) order.   *)
(* Every driver call (InsertOne, UpdateOne, DeleteOne, DeleteMany,         *)
(* FindOne, Aggregate) is one atomic step that either takes effect and     *)
(* returns, or returns an error without taking effect.  Requests are       *)
(* served by concurrent goroutines, one per slot of Procs.                 *)
(***************************************************************************)
EXTENDS Integers, Sequences, FiniteSets, TLC

\* ---------------------------------------------------------------- bounds
\* Requests served in one process lifetime.
MaxReqs == 2

\* Request goroutines that can be in flight at once.
Procs == {1, 2}

\* emp_id values a caller supplies explicitly; 0 means absent (main.go:217).
EmpIds == {1, 2}

\* A JSON field that is absent (nil pointer, missing projection).
Nil == "null"

\* Bodies of create requests: emp_name, department, language.
CreateBodies ==
    {[emp_name |-> "A", department |-> "Eng", language |-> "Go"]}

\* Bodies of update requests: each field is optional.
UpdateBodies ==
    {[emp_name |-> "B", department |-> Nil, language |-> Nil],
     [emp_name |-> Nil, department |-> "Sales", language |-> Nil],
     [emp_name |-> "B", department |-> "Sales", language |-> "Py"]}

\* What a request body carries: a sequence of top-level values, each a JSON
\* object or text that is not JSON.
JsonObject(e, b) ==
    [tok |-> "object", emp_id |-> e, emp_name |-> b.emp_name,
     department |-> b.department, language |-> b.language]

Text == [tok |-> "text"]

\* Bodies sent to create: an object with or without emp_id, an object
\* followed by text, text alone.
CreateRequestBodies ==
    {<<JsonObject(e, b)>> : e \in EmpIds \cup {0}, b \in CreateBodies}
    \cup {<<JsonObject(0, b), Text>> : b \in CreateBodies}
    \cup {<<Text>>}

\* Bodies sent to update: an object, text alone.
UpdateRequestBodies ==
    {<<JsonObject(0, b)>> : b \in UpdateBodies} \cup {<<Text>>}

\* The {id} part of the path /api/employees/{id}, as characters.
PathIds == {<<"1">>, <<"2">>, <<"1", "x">>}

\* ----------------------------------------------------------------- state
VARIABLES
    Employee,       \* collection: <<[emp_id, emp_name]>>
    Department,     \* collection: <<[emp_id, department_name]>>
    Developers,     \* collection: <<[emp_id, language]>>
    idCounter,      \* main.go:30
    idMu,           \* main.go:31; 0 = unlocked, else the holder
    mainPc,         \* "boot" before initIDCounter has run, then "serving"
    pc,             \* per goroutine: position in its handler
    input,          \* per goroutine: the decoded request
    v,              \* per goroutine: local v of nextID
    resp,           \* per goroutine: the response written
    res,            \* per goroutine: DeletedCount of deleteEmployee's res
    \* ---- history (not read by the program) ----
    reqCount,       \* requests started
    allocLog,       \* values returned by nextID, in return order
    initRead,       \* outcome of initIDCounter's FindOne: "none", "ok", "error"
    bootEmployee,   \* Employee as initIDCounter saw it
    maxEver,        \* greatest emp_id of any Employee document that ever existed, 0 if none
    alone,          \* per goroutine: no other request overlapped this one
    pre,            \* per goroutine: rows per collection for its emp_id when it got it
    prev            \* per goroutine: Last, as it was when the request arrived

store == <<Employee, Department, Developers>>
alloc == <<idCounter, idMu>>
\* What a request's goroutine owns besides pc and resp.
frame == <<input, v, res, alone, pre, prev>>
\* What only the startup and the allocator write.
boot  == <<mainPc, allocLog, initRead, bootEmployee>>
vars  == <<Employee, Department, Developers, idCounter, idMu, mainPc,
           pc, input, v, resp, res, reqCount, allocLog, initRead,
           bootEmployee, maxEver, alone, pre, prev>>

\* ------------------------------------------------------ driver operations
EmpDoc(e, n) == [emp_id |-> e, emp_name |-> n]
DepDoc(e, d) == [emp_id |-> e, department_name |-> d]
DevDoc(e, l) == [emp_id |-> e, language |-> l]

\* Indexes of the documents matching the filter {emp_id: e}.
Matching(coll, e) == {i \in 1..Len(coll) : coll[i].emp_id = e}

Count(coll, e) == Cardinality(Matching(coll, e))

\* The first matching document in natural order, 0 if none.
FirstMatch(coll, e) ==
    IF Matching(coll, e) = {} THEN 0
    ELSE CHOOSE i \in Matching(coll, e) : \A j \in Matching(coll, e) : i <= j

RemoveAt(coll, i) ==
    [k \in 1..(Len(coll) - 1) |-> IF k < i THEN coll[k] ELSE coll[k + 1]]

InsertOne(coll, doc) == Append(coll, doc)

\* Mutant: UpdateOne that never upserts.
UpdateOneNoUpsert(coll, e, field, val, upsert) ==
    LET i == FirstMatch(coll, e) IN
    IF i # 0 THEN [coll EXCEPT ![i] = [@ EXCEPT ![field] = val]] ELSE coll

\* Mutant: UpdateOne that always upserts.
UpdateOneAlwaysUpsert(coll, e, field, val, upsert) ==
    LET i == FirstMatch(coll, e) IN
    IF i # 0 THEN [coll EXCEPT ![i] = [@ EXCEPT ![field] = val]]
    ELSE Append(coll, [k \in {"emp_id", field} |->
                          IF k = "emp_id" THEN e ELSE val])

\* UpdateOne(filter {emp_id: e}, {$set: {field: val}}) with or without upsert:
\* the first match is modified; with upsert and no match, the document built
\* from the filter and the $set is inserted.
UpdateOne(coll, e, field, val, upsert) ==
    LET i == FirstMatch(coll, e) IN
    IF i # 0 THEN [coll EXCEPT ![i] = [@ EXCEPT ![field] = val]]
    ELSE IF upsert
         THEN Append(coll, [k \in {"emp_id", field} |->
                               IF k = "emp_id" THEN e ELSE val])
         ELSE coll

\* Mutant: removes the first document, whatever its emp_id.
DeleteOneUnfiltered(coll, e) ==
    IF coll = <<>> THEN coll ELSE Tail(coll)

\* DeleteOne(filter {emp_id: e}): removes the first match.
DeleteOne(coll, e) ==
    LET i == FirstMatch(coll, e) IN
    IF i = 0 THEN coll ELSE RemoveAt(coll, i)

\* Mutant: a count that ignores the filter.
DeletedCountAny(coll, e) == IF coll = <<>> THEN 0 ELSE 1

DeletedCount(coll, e) == IF FirstMatch(coll, e) = 0 THEN 0 ELSE 1

\* Mutant: DeleteMany that removes the first match only.
DeleteManyFirstOnly(coll, e) ==
    LET i == FirstMatch(coll, e) IN
    IF i = 0 THEN coll ELSE RemoveAt(coll, i)

\* DeleteMany(filter {emp_id: e}).
DeleteMany(coll, e) ==
    LET keep(i) == coll[i].emp_id # e
        RECURSIVE walk(_)
        walk(i) == IF i > Len(coll) THEN <<>>
                   ELSE IF keep(i) THEN <<coll[i]>> \o walk(i + 1)
                   ELSE walk(i + 1)
    IN walk(1)

\* Mutant: sort {emp_id: 1}, ascending.
RECURSIVE InsertAsc(_, _)
InsertAsc(sorted, doc) ==
    IF sorted = <<>> THEN <<doc>>
    ELSE IF Head(sorted).emp_id <= doc.emp_id
         THEN <<Head(sorted)>> \o InsertAsc(Tail(sorted), doc)
         ELSE <<doc>> \o sorted

\* Sort {emp_id: -1}: insertion sort, descending, stable.
RECURSIVE InsertDesc(_, _)
InsertDesc(sorted, doc) ==
    IF sorted = <<>> THEN <<doc>>
    ELSE IF Head(sorted).emp_id >= doc.emp_id
         THEN <<Head(sorted)>> \o InsertDesc(Tail(sorted), doc)
         ELSE <<doc>> \o sorted

RECURSIVE SortDesc(_)
SortDesc(coll) ==
    IF coll = <<>> THEN <<>>
    ELSE InsertDesc(SortDesc(SubSeq(coll, 1, Len(coll) - 1)), coll[Len(coll)])

\* FindOne(bson.D{}, sort emp_id desc): <<>> stands for ErrNoDocuments.
FindOneSortDesc(coll) ==
    IF coll = <<>> THEN <<>> ELSE <<Head(SortDesc(coll))>>

\* The Go type a BSON integer written from a Go int decodes to in a bson.M.
BsonType(n) ==
    IF n >= -2147483647 - 1 /\ n <= 2147483647 THEN "int32" ELSE "int64"


\* ------------------------------------------------------ handler helpers
\* Mutant: a type switch without the int32 case.
SwitchEmpIDNoInt32(doc, fallback) ==
    IF BsonType(doc.emp_id) \in {"int64", "float64", "int"}
    THEN doc.emp_id
    ELSE fallback

\* lastIDHandler's and initIDCounter's type switch on last["emp_id"]
\* (main.go:71-82, 180-189): the integer value for the numeric Go types,
\* otherwise the fallback.
SwitchEmpID(doc, fallback) ==
    IF BsonType(doc.emp_id) \in {"int32", "int64", "float64", "int"}
    THEN doc.emp_id
    ELSE fallback

\* $lookup from coll on emp_id, then $arrayElemAt [<field>, 0]: the field of
\* the first joined document, missing when nothing joins.
LookupFirst(coll, e, field) ==
    LET i == FirstMatch(coll, e) IN
    IF i = 0 THEN Nil ELSE coll[i][field]

\* Mutant: an inner join, which drops the employees that have no Department
\* row.
AggregateInnerJoin(emp, dep, dev) ==
    LET Joined(d) == FirstMatch(dep, d.emp_id) # 0
        kept == SelectSeq(emp, Joined)
    IN [i \in 1..Len(kept) |->
           [emp_id     |-> kept[i].emp_id,
            emp_name   |-> kept[i].emp_name,
            department |-> LookupFirst(dep, kept[i].emp_id, "department_name"),
            language   |-> LookupFirst(dev, kept[i].emp_id, "language")]]

\* The aggregation pipeline of getEmployees (main.go:111-134).
Aggregate(emp, dep, dev) ==
    [i \in 1..Len(emp) |->
        [emp_id     |-> emp[i].emp_id,
         emp_name   |-> emp[i].emp_name,
         department |-> LookupFirst(dep, emp[i].emp_id, "department_name"),
         language   |-> LookupFirst(dev, emp[i].emp_id, "language")]]

NoBody  == [emp_name |-> Nil, department |-> Nil, language |-> Nil]

Request(kind, e, body) ==
    [kind |-> kind, emp_id |-> e, emp_name |-> body.emp_name,
     department |-> body.department, language |-> body.language,
     idStr |-> <<>>, body |-> <<>>]

\* The request in as it was received: the path id idStr and, of the body
\* read, what kind of value each of its parts is.
Received(in, idStr, body) ==
    [in EXCEPT !.idStr = idStr,
               !.body = [i \in 1..Len(body) |-> body[i].tok]]

\* json.NewDecoder(r.Body).Decode(&input): reads the next JSON value of the
\* body and stops there; an error when the body does not start with one.
Decode(body) ==
    IF body # <<>> /\ body[1].tok = "object"
    THEN [ok |-> TRUE, value |-> body[1]]
    ELSE [ok |-> FALSE, value |-> JsonObject(0, NoBody)]

DigitValue == ("0" :> 0) @@ ("1" :> 1) @@ ("2" :> 2)

RECURSIVE Decimal(_)
Decimal(s) ==
    IF s = <<>> THEN 0
    ELSE 10 * Decimal(SubSeq(s, 1, Len(s) - 1)) + DigitValue[s[Len(s)]]

\* strconv.Atoi(idStr): the number written by the digits, an error when a
\* character is not a digit or there is none.
Atoi(s) ==
    IF s # <<>> /\ \A i \in 1..Len(s) : s[i] \in DOMAIN DigitValue
    THEN [ok |-> TRUE, n |-> Decimal(s)]
    ELSE [ok |-> FALSE, n |-> 0]

NoInput == Request("none", 0, NoBody)
NoResp  == [status |-> 0, emp_id |-> 0, last_emp_id |-> 0,
            deleted_count |-> 0, list |-> <<>>]
NoPre   == [emp |-> 0, dep |-> 0, dev |-> 0, auto |-> FALSE]

NoReq == [kind |-> "none", emp_id |-> 0, preEmp |-> 0, deleted_count |-> 0]

\* What the history keeps of a completed request: of a create that was given
\* its id by nextID and answered 201, the id; of a delete answered 200, the
\* emp_id, the Employee rows it had on arrival and the deleted_count.
Record(in, pr, r) ==
    IF (in.kind = "create" /\ pr.auto /\ r.status = 201)
       \/ (in.kind = "delete" /\ r.status = 200)
    THEN [kind |-> in.kind, emp_id |-> in.emp_id, preEmp |-> pr.emp,
          deleted_count |-> r.deleted_count]
    ELSE NoReq

Status(code) == [NoResp EXCEPT !.status = code]

Idle(p) == pc[p] \in {"idle", "done"}

OthersIdle(p) == \A q \in Procs \ {p} : Idle(q)

RowsOf(e) == [emp  |-> Count(Employee, e), dep |-> Count(Department, e),
              dev  |-> Count(Developers, e), auto |-> FALSE]

\* The most recently completed request, if it ran alone and no request has
\* arrived since.
Last ==
    IF \E p \in Procs : pc[p] = "done" /\ alone[p]
    THEN LET p == CHOOSE q \in Procs : pc[q] = "done" /\ alone[q]
         IN Record(input[p], pre[p], resp[p])
    ELSE NoReq

\* The server is accepting requests and p is its first free goroutine.
Free(p) ==
    /\ mainPc = "serving"
    /\ Idle(p)
    /\ \A q \in Procs : q < p => ~Idle(q)
    /\ reqCount < MaxReqs

\* A request arrives and is given to the first free goroutine, p.
Arrives(p) ==
    /\ Free(p)
    /\ reqCount' = reqCount + 1

\* f with x for goroutine p, and blank for the goroutines that have returned:
\* what is kept of a completed request is kept until the next one arrives.
Fresh(f, p, x, blank) ==
    [q \in Procs |-> IF q = p THEN x ELSE IF Idle(q) THEN blank ELSE f[q]]

\* Goroutine p takes the decoded request in, will continue at next and has
\* so far written the response r.
Take(p, in, next, r) ==
    /\ Arrives(p)
    /\ pc' = Fresh(pc, p, next, "idle")
    /\ resp' = Fresh(resp, p, r, NoResp)
    /\ input' = Fresh(input, p, in, NoInput)
    /\ alone' = [q \in Procs |-> q = p /\ OthersIdle(p)]
    /\ prev' = Fresh(prev, p, IF OthersIdle(p) THEN Last ELSE NoReq, NoReq)
    /\ pre' = Fresh(pre, p,
                    [RowsOf(in.emp_id) EXCEPT
                        !.auto = (in.kind = "create" /\ in.emp_id = 0)],
                    NoPre)
    /\ UNCHANGED <<v, res>>

\* The handler of p starts on the decoded request in and continues at next.
Begin(p, in, next) == Take(p, in, next, NoResp)

\* A request arrives at p and its handler answers r with no further step.
Answer(p, kind, r) == Take(p, Request(kind, 0, NoBody), "done", r)

\* The handler of p continues at next.
Goto(p, next) ==
    /\ pc' = [pc EXCEPT ![p] = next]
    /\ UNCHANGED <<resp, alone, pre, prev>>

\* The handler of p writes its response r and returns.  The history keeps
\* the request until the next one arrives if it ran alone.
Complete(p, r) ==
    /\ pc' = [pc EXCEPT ![p] = "done"]
    /\ resp' = [resp EXCEPT ![p] = r]
    /\ v' = [v EXCEPT ![p] = 0]
    /\ res' = [res EXCEPT ![p] = 0]
    /\ input' = [input EXCEPT ![p] = IF alone[p] THEN @ ELSE NoInput]
    /\ pre' = [pre EXCEPT ![p] = IF alone[p] THEN @ ELSE NoPre]
    /\ prev' = [prev EXCEPT ![p] = IF alone[p] THEN @ ELSE NoReq]
    /\ UNCHANGED alone

\* A request arrives at p and is refused with 400 before its handler reads
\* anything else of it.
Reject(p, kind, idStr, body) ==
    Take(p, Received(Request(kind, 0, NoBody), idStr, body), "done", Status(400))

\* A driver call of p returns an error: 500 with the error text, and return.
StoreError(p) == Complete(p, Status(500))

\* --------------------------------------------------------------- startup
\* What the database can hold when the process starts: no employee, one, or
\* two, each with its Department and Developers rows.
BootEmployees ==
    {<<>>, <<EmpDoc(2, "A"), EmpDoc(1, "A")>>, <<EmpDoc(1, "A"), EmpDoc(1, "B")>>}

Init ==
    /\ Employee \in BootEmployees
    /\ Department = [i \in 1..Len(Employee) |-> DepDoc(Employee[i].emp_id, "Eng")]
    /\ Developers = [i \in 1..Len(Employee) |-> DevDoc(Employee[i].emp_id, "Go")]
    /\ idCounter = 1
    /\ idMu = 0
    /\ mainPc = "boot"
    /\ pc = [p \in Procs |-> "idle"]
    /\ input = [p \in Procs |-> NoInput]
    /\ v = [p \in Procs |-> 0]
    /\ resp = [p \in Procs |-> NoResp]
    /\ res = [p \in Procs |-> 0]
    /\ reqCount = 0
    /\ allocLog = <<>>
    /\ initRead = "none"
    /\ bootEmployee = Employee
    /\ maxEver = IF Employee = <<>> THEN 0 ELSE Head(SortDesc(Employee)).emp_id
    /\ alone = [p \in Procs |-> FALSE]
    /\ pre = [p \in Procs |-> NoPre]
    /\ prev = [p \in Procs |-> NoReq]

\* Mutant: the counter starts at the greatest emp_id instead of after it.
InitialCounterNoIncrement(found) ==
    IF found = <<>> THEN 1 ELSE found[1].emp_id

\* The value initIDCounter leaves in idCounter after a FindOne that returned
\* found (<<>> for ErrNoDocuments).
InitialCounter(found) ==
    IF found = <<>> THEN 1 ELSE SwitchEmpID(found[1], 0) + 1

\* main.go:56-85, called from main before the server listens.
initIDCounter ==
    /\ mainPc = "boot"
    /\ mainPc' = "serving"
    /\ \/ /\ idCounter' = InitialCounter(FindOneSortDesc(Employee))
          /\ initRead' = "ok"
       \/ /\ idCounter' = idCounter      \* any other error: logged, return
          /\ initRead' = "error"
    /\ UNCHANGED <<store, idMu, pc, resp, frame, reqCount, allocLog,
                   bootEmployee, maxEver>>

\* ------------------------------------------------------------- allocator
\* Mutant: Lock that never blocks.
MutexIgnored == TRUE

\* sync.Mutex: Lock blocks while the mutex is held.
MutexFree == idMu = 0

nextID_Lock(p) ==
    /\ pc[p] = "nextID_lock"
    /\ MutexFree
    /\ idMu' = p
    /\ Goto(p, "nextID_read")
    /\ UNCHANGED <<store, idCounter, boot, input, v, res, reqCount, maxEver>>

nextID_Read(p) ==
    /\ pc[p] = "nextID_read"
    /\ v' = [v EXCEPT ![p] = idCounter]
    /\ Goto(p, "nextID_incr")
    /\ UNCHANGED <<store, alloc, boot, input, res, reqCount, maxEver>>

nextID_Incr(p) ==
    /\ pc[p] = "nextID_incr"
    /\ idCounter' = idCounter + 1
    /\ Goto(p, "nextID_unlock")
    /\ UNCHANGED <<store, idMu, boot, input, v, res, reqCount, maxEver>>

\* return v with the deferred Unlock; the caller stores it in input.EmpId.
nextID_Unlock(p) ==
    /\ pc[p] = "nextID_unlock"
    /\ idMu' = 0
    /\ input' = [input EXCEPT ![p].emp_id = v[p]]
    /\ allocLog' = Append(allocLog, v[p])
    /\ pre' = [pre EXCEPT ![p] = [RowsOf(v[p]) EXCEPT !.auto = TRUE]]
    /\ pc' = [pc EXCEPT ![p] = "ins_emp"]
    /\ UNCHANGED <<resp, alone, prev>>
    /\ UNCHANGED <<store, idCounter, mainPc, initRead, bootEmployee, v, res,
                   reqCount, maxEver>>

\* ---------------------------------------------------------------- create
\* main.go:196-219: decode the body; a body Decode returns an error for is
\* answered 400; an emp_id of 0 is replaced by nextID().
createEmployee(p) ==
    /\ Free(p)
    /\ \E body \in CreateRequestBodies :
          LET d == Decode(body)
              e == d.value.emp_id
          IN IF ~d.ok
             THEN Reject(p, "create", <<>>, body)
             ELSE Begin(p, Received(Request("create", e, d.value), <<>>, body),
                        IF e = 0 THEN "nextID_lock" ELSE "ins_emp")
    /\ UNCHANGED <<store, alloc, boot, maxEver>>

Max(a, b) == IF a >= b THEN a ELSE b

\* main.go:225-228
createInsertEmployee(p) ==
    /\ pc[p] = "ins_emp"
    /\ \/ /\ Employee' = InsertOne(Employee, EmpDoc(input[p].emp_id, input[p].emp_name))
          /\ maxEver' = Max(maxEver, input[p].emp_id)
          /\ Goto(p, "ins_dep")
          /\ UNCHANGED <<input, v, res>>
       \/ /\ StoreError(p)
          /\ UNCHANGED <<Employee, maxEver>>
    /\ UNCHANGED <<Department, Developers, alloc, boot, reqCount>>

\* Mutant: the failed Department insert is answered but not returned from.
createInsertDepartment_NoReturn(p) ==
    /\ pc[p] = "ins_dep"
    /\ \/ Department' = InsertOne(Department, DepDoc(input[p].emp_id, input[p].department))
       \/ UNCHANGED Department
    /\ Goto(p, "ins_dev")
    /\ UNCHANGED <<Employee, Developers, alloc, boot, reqCount, maxEver,
                   input, v, res>>

\* main.go:229-232
createInsertDepartment(p) ==
    /\ pc[p] = "ins_dep"
    /\ \/ /\ Department' = InsertOne(Department, DepDoc(input[p].emp_id, input[p].department))
          /\ Goto(p, "ins_dev")
          /\ UNCHANGED <<input, v, res>>
       \/ /\ StoreError(p)
          /\ UNCHANGED Department
    /\ UNCHANGED <<Employee, Developers, alloc, boot, reqCount, maxEver>>

\* Mutant: the Developers insert is left out.
createInsertDevelopers_NoInsert(p) ==
    /\ pc[p] = "ins_dev"
    /\ Complete(p, [Status(201) EXCEPT !.emp_id = input[p].emp_id])
    /\ UNCHANGED <<store, alloc, boot, reqCount, maxEver>>

\* main.go:233-240
createInsertDevelopers(p) ==
    /\ pc[p] = "ins_dev"
    /\ \/ /\ Developers' = InsertOne(Developers, DevDoc(input[p].emp_id, input[p].language))
          /\ Complete(p, [Status(201) EXCEPT !.emp_id = input[p].emp_id])
       \/ /\ StoreError(p)
          /\ UNCHANGED Developers
    /\ UNCHANGED <<Employee, Department, alloc, boot, reqCount, maxEver>>

\* ---------------------------------------------------------------- update
\* empByIDHandler for PUT (main.go:251-264) and the decoding of
\* updateEmployee (main.go:274-282): a path id Atoi returns an error for, or a
\* body Decode returns an error for, is answered 400.
updateEmployee(p) ==
    /\ Free(p)
    /\ \E idStr \in PathIds, body \in UpdateRequestBodies :
          LET id == Atoi(idStr)
              d == Decode(body)
          IN IF ~id.ok
             THEN Reject(p, "update", idStr, <<>>)
             ELSE IF ~d.ok
             THEN Reject(p, "update", idStr, body)
             ELSE Begin(p, Received(Request("update", id.n, d.value), idStr, body),
                        "upd_emp")
    /\ UNCHANGED <<store, alloc, boot, maxEver>>

\* main.go:288-293: no upsert.
updateEmployeeName(p) ==
    /\ pc[p] = "upd_emp"
    /\ \/ /\ Employee' = IF input[p].emp_name = Nil THEN Employee
                         ELSE UpdateOne(Employee, input[p].emp_id, "emp_name",
                                        input[p].emp_name, FALSE)
          /\ Goto(p, "upd_dep")
          /\ UNCHANGED <<input, v, res>>
       \/ /\ input[p].emp_name # Nil
          /\ StoreError(p)
          /\ UNCHANGED Employee
    /\ UNCHANGED <<Department, Developers, alloc, boot, reqCount, maxEver>>

\* main.go:294-299: upsert.
updateDepartment(p) ==
    /\ pc[p] = "upd_dep"
    /\ \/ /\ Department' = IF input[p].department = Nil THEN Department
                           ELSE UpdateOne(Department, input[p].emp_id,
                                          "department_name", input[p].department, TRUE)
          /\ Goto(p, "upd_dev")
          /\ UNCHANGED <<input, v, res>>
       \/ /\ input[p].department # Nil
          /\ StoreError(p)
          /\ UNCHANGED Department
    /\ UNCHANGED <<Employee, Developers, alloc, boot, reqCount, maxEver>>

\* main.go:300-307: upsert, then the 200 response.
updateLanguage(p) ==
    /\ pc[p] = "upd_dev"
    /\ \/ /\ Developers' = IF input[p].language = Nil THEN Developers
                           ELSE UpdateOne(Developers, input[p].emp_id,
                                          "language", input[p].language, TRUE)
          /\ Complete(p, Status(200))
       \/ /\ input[p].language # Nil
          /\ StoreError(p)
          /\ UNCHANGED Developers
    /\ UNCHANGED <<Employee, Department, alloc, boot, reqCount, maxEver>>

\* ---------------------------------------------------------------- delete
\* empByIDHandler for DELETE (main.go:251-266): a path id Atoi returns an
\* error for is answered 400.
deleteEmployee(p) ==
    /\ Free(p)
    /\ \E idStr \in PathIds :
          LET id == Atoi(idStr)
          IN IF ~id.ok
             THEN Reject(p, "delete", idStr, <<>>)
             ELSE Begin(p, Received(Request("delete", id.n, NoBody), idStr, <<>>),
                        "del_emp")
    /\ UNCHANGED <<store, alloc, boot, maxEver>>

\* main.go:316-320
deleteEmployeeRow(p) ==
    /\ pc[p] = "del_emp"
    /\ \/ /\ Employee' = DeleteOne(Employee, input[p].emp_id)
          /\ res' = [res EXCEPT ![p] = DeletedCount(Employee, input[p].emp_id)]
          /\ Goto(p, "del_dep")
          /\ UNCHANGED <<input, v>>
       \/ /\ StoreError(p)
          /\ UNCHANGED Employee
    /\ UNCHANGED <<Department, Developers, alloc, boot, reqCount, maxEver>>

\* main.go:321-324
deleteDepartmentRows(p) ==
    /\ pc[p] = "del_dep"
    /\ \/ /\ Department' = DeleteMany(Department, input[p].emp_id)
          /\ Goto(p, "del_dev")
          /\ UNCHANGED <<input, v, res>>
       \/ /\ StoreError(p)
          /\ UNCHANGED Department
    /\ UNCHANGED <<Employee, Developers, alloc, boot, reqCount, maxEver>>

\* main.go:325-331
deleteDevelopersRows(p) ==
    /\ pc[p] = "del_dev"
    /\ \/ /\ Developers' = DeleteMany(Developers, input[p].emp_id)
          /\ Complete(p, [Status(200) EXCEPT !.deleted_count = res[p]])
       \/ /\ StoreError(p)
          /\ UNCHANGED Developers
    /\ UNCHANGED <<Employee, Department, alloc, boot, reqCount, maxEver>>

\* ----------------------------------------------------------------- reads
\* The last_emp_id lastIDHandler reports for a FindOne that returned found.
LastEmpID(found) ==
    IF found = <<>> THEN 0 ELSE SwitchEmpID(found[1], 0)

\* main.go:153-193
lastIDHandler(p) ==
    /\ Free(p)
    /\ \/ Answer(p, "last-id",
                 [Status(200) EXCEPT
                     !.last_emp_id = LastEmpID(FindOneSortDesc(Employee))])
       \/ Answer(p, "last-id", Status(500))
    /\ UNCHANGED <<store, alloc, boot, maxEver>>

\* main.go:106-150
getEmployees(p) ==
    /\ Free(p)
    /\ \/ Answer(p, "list",
                 [Status(200) EXCEPT
                     !.list = Aggregate(Employee, Department, Developers)])
       \/ Answer(p, "list", Status(500))
    /\ UNCHANGED <<store, alloc, boot, maxEver>>

Next ==
    \/ initIDCounter
    \/ \E p \in Procs :
          \/ createEmployee(p)
          \/ nextID_Lock(p)
          \/ nextID_Read(p)
          \/ nextID_Incr(p)
          \/ nextID_Unlock(p)
          \/ createInsertEmployee(p)
          \/ createInsertDepartment(p)
          \/ createInsertDevelopers(p)
          \/ updateEmployee(p)
          \/ updateEmployeeName(p)
          \/ updateDepartment(p)
          \/ updateLanguage(p)
          \/ deleteEmployee(p)
          \/ deleteEmployeeRow(p)
          \/ deleteDepartmentRows(p)
          \/ deleteDevelopersRows(p)
          \/ lastIDHandler(p)
          \/ getEmployees(p)

Spec == Init /\ [][Next]_vars


\* =================================================================
\* Properties
\* =================================================================
\* The greatest emp_id of a non-empty collection.
GreatestEmpID(coll) ==
    CHOOSE m \in {coll[i].emp_id : i \in 1..Len(coll)} :
        \A i \in 1..Len(coll) : coll[i].emp_id <= m

\* Goroutine p has returned from a request of this kind that ran alone; no
\* request has arrived since.
Served(p, kind) == pc[p] = "done" /\ alone[p] /\ input[p].kind = kind

\* C1: the ids returned by nextID are pairwise distinct and strictly
\* increasing in the order in which the callers leave the critical section,
\* and two requests in flight never hold the same allocated id.
C1_AllocatedIdsIncrease ==
    /\ \A i, j \in 1..Len(allocLog) : i < j => allocLog[i] < allocLog[j]
    /\ \A p, q \in Procs :
          (p # q /\ ~Idle(p) /\ ~Idle(q) /\ pre[p].auto /\ pre[q].auto
           /\ input[p].emp_id # 0 /\ input[q].emp_id # 0)
          => input[p].emp_id # input[q].emp_id

\* Two overlapping create requests have both been through nextID.
C1_Witness ==
    /\ Len(allocLog) = 2
    /\ \A p \in Procs : ~Idle(p) /\ pre[p].auto /\ input[p].emp_id # 0

\* C2: after initIDCounter has read the Employee collection successfully,
\* the first value nextID returns is the greatest emp_id of the collection
\* plus one, and 1 when the collection was empty.
C2_FirstIdFollowsBootMax ==
    (initRead = "ok" /\ allocLog # <<>>)
    => allocLog[1] = IF bootEmployee = <<>> THEN 1
                     ELSE GreatestEmpID(bootEmployee) + 1

\* The first id was allocated after a start on a collection whose greatest
\* emp_id is not in its last document.
C2_Witness ==
    /\ initRead = "ok"
    /\ allocLog # <<>>
    /\ Len(bootEmployee) = 2
    /\ bootEmployee[1].emp_id > bootEmployee[2].emp_id

\* C3 as stated: a GET last-id served right after a create that was given
\* the id a by nextID and answered 201 returns last_emp_id = a.
C3_LastIdIsAssignedId ==
    \A p \in Procs :
        (Served(p, "last-id") /\ resp[p].status = 200 /\ prev[p].kind = "create")
        => resp[p].last_emp_id = prev[p].emp_id

\* C3 as amended: that GET last-id returns the greatest emp_id of the
\* Employee collection, which is at least a, and is a when no Employee
\* document has an emp_id greater than a.
C3_LastIdAtLeastAssignedId ==
    [][\A p \in Procs :
          (lastIDHandler(p) /\ resp'[p].status = 200 /\ prev'[p].kind = "create")
          => /\ resp'[p].last_emp_id >= prev'[p].emp_id
             /\ (\A i \in 1..Len(Employee) : Employee[i].emp_id <= prev'[p].emp_id)
                => resp'[p].last_emp_id = prev'[p].emp_id]_vars

\* A GET last-id served right after such a create has returned its id.
C3_Witness ==
    \E p \in Procs :
        /\ Served(p, "last-id")
        /\ resp[p].status = 200
        /\ prev[p].kind = "create"
        /\ resp[p].last_emp_id = prev[p].emp_id

\* C4 as stated: GET last-id returns 0 if no employee was ever created and
\* otherwise the greatest emp_id of any employee ever created.
C4_LastIdIsMaxEverCreated ==
    \A p \in Procs :
        (Served(p, "last-id") /\ resp[p].status = 200)
        => resp[p].last_emp_id = maxEver

\* C4 as amended: GET last-id returns 0 if the Employee collection is empty
\* and otherwise the greatest emp_id of the documents it holds now.
C4_LastIdIsMaxOfCurrentRows ==
    [][\A p \in Procs :
          (lastIDHandler(p) /\ resp'[p].status = 200)
          => resp'[p].last_emp_id = IF Employee = <<>> THEN 0
                                    ELSE GreatestEmpID(Employee)]_vars

\* GET last-id has returned the greatest emp_id of a non-empty collection
\* from which a greater one had been deleted.
C4_Witness ==
    \E p \in Procs :
        /\ Served(p, "last-id")
        /\ resp[p].status = 200
        /\ Employee # <<>>
        /\ resp[p].last_emp_id = GreatestEmpID(Employee)
        /\ resp[p].last_emp_id < maxEver


\* The entry getEmployees is to list for the create request of goroutine p.
CreatedEntry(p) ==
    [emp_id |-> input[p].emp_id, emp_name |-> input[p].emp_name,
     department |-> input[p].department, language |-> input[p].language]

\* getEmployees lists exactly one entry with the emp_id of p's request, and
\* it is CreatedEntry(p).
ListsTheCreatedEntry(p) ==
    LET L == Aggregate(Employee, Department, Developers)
        S == {i \in 1..Len(L) : L[i].emp_id = input[p].emp_id}
    IN Cardinality(S) = 1 /\ \A i \in S : L[i] = CreatedEntry(p)

\* Goroutine p has served, alone, a create with an explicit emp_id: 201.
CreatedExplicit(p) ==
    Served(p, "create") /\ ~pre[p].auto /\ resp[p].status = 201

\* C5 as stated: after a successful create with an explicit emp_id e, issued
\* when no Employee document had emp_id e, getEmployees lists exactly one
\* entry with emp_id e, and it carries the name, department and language of
\* the request.
C5_ListHasTheCreatedEntry ==
    \A p \in Procs :
        (CreatedExplicit(p) /\ pre[p].emp = 0) => ListsTheCreatedEntry(p)

\* C5 as amended: the same, for a create issued when no Employee, no
\* Department and no Developers document had emp_id e.
C5_ListHasTheCreatedEntryOfNewId ==
    \A p \in Procs :
        (CreatedExplicit(p) /\ pre[p].emp = 0 /\ pre[p].dep = 0 /\ pre[p].dev = 0)
        => ListsTheCreatedEntry(p)

\* A create with an explicit emp_id no collection knew has been served.
C5_Witness ==
    \E p \in Procs :
        /\ CreatedExplicit(p)
        /\ pre[p].emp = 0 /\ pre[p].dep = 0 /\ pre[p].dev = 0
        /\ ListsTheCreatedEntry(p)

\* An update request that supplies department only.
OnlyDepartment(in) ==
    in.kind = "update" /\ in.emp_name = Nil /\ in.language = Nil
    /\ in.department # Nil

\* C6: an update of emp_id e that supplies only department d never changes
\* Employee or Developers, and changes Department only by its UpdateOne:
\* with no Department document for e, one is appended, for e and with name d;
\* with one, that document gets name d and nothing else changes.
C6_DepartmentUpsert ==
    [][\A p \in Procs :
          (OnlyDepartment(input[p]) /\ ~Idle(p) /\ pc'[p] # pc[p])
          => LET e == input[p].emp_id
                 d == input[p].department
             IN /\ Employee' = Employee
                /\ Developers' = Developers
                /\ pc[p] # "upd_dep" => Department' = Department
                /\ (pc[p] = "upd_dep" /\ pc'[p] = "upd_dev" /\ Count(Department, e) = 0)
                   => /\ Len(Department') = Len(Department) + 1
                      /\ SubSeq(Department', 1, Len(Department)) = Department
                      /\ Count(Department', e) = 1
                      /\ Department'[Len(Department')] = DepDoc(e, d)
                /\ (pc[p] = "upd_dep" /\ pc'[p] = "upd_dev" /\ Count(Department, e) = 1)
                   => /\ Len(Department') = Len(Department)
                      /\ \A i \in 1..Len(Department) :
                            Department'[i] = IF Department[i].emp_id = e
                                             THEN DepDoc(e, d)
                                             ELSE Department[i]
                /\ pc'[p] = "done" => resp'[p].status = 200 \/ StoreError(p)]_vars

\* An update with department only has been served for an emp_id that had no
\* Department document, and now has one.
C6_Witness ==
    \E p \in Procs :
        /\ Served(p, "update") /\ OnlyDepartment(input[p])
        /\ resp[p].status = 200
        /\ pre[p].dep = 0
        /\ Count(Department, input[p].emp_id) = 1
        /\ LookupFirst(Department, input[p].emp_id, "department_name")
              = input[p].department

\* C7: an update that supplies emp_name for an emp_id with no Employee
\* document leaves Employee unchanged and goes on; the request is answered
\* 200 unless a driver call fails, and has created no Employee document.
C7_NameUpdateOfMissingEmployee ==
    [][\A p \in Procs :
          (input[p].kind = "update" /\ input[p].emp_name # Nil
           /\ ~Idle(p) /\ pc'[p] # pc[p])
          => LET e == input[p].emp_id
             IN /\ (pc[p] = "upd_emp" /\ Count(Employee, e) = 0)
                   => /\ Employee' = Employee
                      /\ pc'[p] = "upd_dep" \/ StoreError(p)
                /\ pc'[p] = "done" => resp'[p].status = 200 \/ StoreError(p)
                /\ (pc'[p] = "done" /\ alone[p] /\ pre[p].emp = 0)
                   => Count(Employee', e) = 0]_vars

\* An update with emp_name has been answered 200 for an emp_id that had, and
\* has, no Employee document.
C7_Witness ==
    \E p \in Procs :
        /\ Served(p, "update") /\ input[p].emp_name # Nil
        /\ resp[p].status = 200
        /\ pre[p].emp = 0
        /\ Count(Employee, input[p].emp_id) = 0

\* Goroutine p has served a delete right after another delete of the same
\* emp_id; both ran alone and were answered 200.
SecondDelete(p) ==
    /\ Served(p, "delete") /\ resp[p].status = 200
    /\ prev[p].kind = "delete" /\ prev[p].emp_id = input[p].emp_id

\* A delete of an emp_id without Employee document is not refused: it is
\* answered 200 with deleted_count 0, or 500 for a driver error.
DeleteOfMissingReportsZero(p) ==
    (Served(p, "delete") /\ input[p].emp_id # 0 /\ pre[p].emp = 0)
    => /\ resp[p].status \in {200, 500}
       /\ resp[p].status = 200 => resp[p].deleted_count = 0

\* C8 as stated: of two consecutive deletes of an emp_id that had an
\* Employee document, the first reports deleted_count 1 and the second 0; a
\* delete of an emp_id without Employee document reports 0 and does not fail.
C8_SecondDeleteReportsZero ==
    \A p \in Procs :
        /\ (SecondDelete(p) /\ prev[p].preEmp >= 1)
           => prev[p].deleted_count = 1 /\ resp[p].deleted_count = 0
        /\ DeleteOfMissingReportsZero(p)

\* C8 as amended: the first reports 1 and the second 0 when the emp_id had
\* exactly one Employee document; when it had more, both report 1.
C8_SecondDeleteReportsZeroIfUnique ==
    \A p \in Procs :
        /\ (SecondDelete(p) /\ prev[p].preEmp = 1)
           => prev[p].deleted_count = 1 /\ resp[p].deleted_count = 0
        /\ (SecondDelete(p) /\ prev[p].preEmp >= 2)
           => prev[p].deleted_count = 1 /\ resp[p].deleted_count = 1
        /\ DeleteOfMissingReportsZero(p)

\* Two consecutive deletes of an emp_id with one Employee document have
\* reported 1 and 0.
C8_Witness ==
    \E p \in Procs :
        /\ SecondDelete(p)
        /\ prev[p].preEmp = 1
        /\ prev[p].deleted_count = 1
        /\ resp[p].deleted_count = 0

\* The documents with p's emp_id that each collection has gained since p got
\* its emp_id.
Gained(p) ==
    LET e == input[p].emp_id
    IN <<Count(Employee, e) - pre[p].emp,
         Count(Department, e) - pre[p].dep,
         Count(Developers, e) - pre[p].dev>>

\* What a create that ran alone has inserted, by its position: Employee,
\* then Department, then Developers, and after a 500 a prefix of these.
InsertedInOrder(p) ==
    (input[p].kind = "create" /\ alone[p])
    => CASE pc[p] = "ins_emp" -> Gained(p) = <<0, 0, 0>>
         [] pc[p] = "ins_dep" -> Gained(p) = <<1, 0, 0>>
         [] pc[p] = "ins_dev" -> Gained(p) = <<1, 1, 0>>
         [] pc[p] = "done" /\ resp[p].status = 201 -> Gained(p) = <<1, 1, 1>>
         [] pc[p] = "done" /\ resp[p].status = 500 ->
                Gained(p) \in {<<0, 0, 0>>, <<1, 0, 0>>, <<1, 1, 0>>}
         [] OTHER -> resp[p].status \in {0, 400}

\* coll2 is coll with doc appended.
Appended(coll, coll2, doc) == coll2 = coll \o <<doc>>

\* C9: a create inserts into Employee, then Department, then Developers.
\* Each step of it either appends its document to the collection that is due
\* and goes on (201 after the third), or fails: then it changes no
\* collection, answers 500 and returns.  So a failed insert is followed by no
\* other and undoes none, and a create that ran alone leaves a prefix of its
\* three documents.
C9_InsertsInOrderNoRollback ==
    [][\A p \in Procs :
          /\ InsertedInOrder(p)'
          /\ (pc[p] \in {"ins_emp", "ins_dep", "ins_dev"} /\ pc'[p] # pc[p])
             => LET e == input[p].emp_id
                    ok == CASE pc[p] = "ins_emp" ->
                                 /\ Appended(Employee, Employee', EmpDoc(e, input[p].emp_name))
                                 /\ UNCHANGED <<Department, Developers>>
                                 /\ pc'[p] = "ins_dep"
                            [] pc[p] = "ins_dep" ->
                                 /\ Appended(Department, Department', DepDoc(e, input[p].department))
                                 /\ UNCHANGED <<Employee, Developers>>
                                 /\ pc'[p] = "ins_dev"
                            [] pc[p] = "ins_dev" ->
                                 /\ Appended(Developers, Developers', DevDoc(e, input[p].language))
                                 /\ UNCHANGED <<Employee, Department>>
                                 /\ pc'[p] = "done" /\ resp'[p].status = 201
                                 /\ resp'[p].emp_id = e
                    failed == /\ UNCHANGED <<Employee, Department, Developers>>
                              /\ pc'[p] = "done" /\ resp'[p].status = 500
                IN ok \/ failed]_vars

\* A create has failed at its Department insert: its emp_id has an Employee
\* document and no Department document.
C9_Witness ==
    \E p \in Procs :
        /\ Served(p, "create")
        /\ resp[p].status = 500
        /\ Gained(p) = <<1, 0, 0>>
        /\ Count(Employee, input[p].emp_id) = 1
        /\ Count(Department, input[p].emp_id) = 0

\* C10: after a delete answered 200 that ran alone, no Department and no
\* Developers document has its emp_id; Employee has lost deleted_count
\* documents with that emp_id, which is 1 if there was one and 0 otherwise.
C10_DeleteRemovesRelatedRows ==
    \A p \in Procs :
        (Served(p, "delete") /\ resp[p].status = 200)
        => LET e == input[p].emp_id
           IN /\ Count(Department, e) = 0
              /\ Count(Developers, e) = 0
              /\ Count(Employee, e) = pre[p].emp - resp[p].deleted_count
              /\ resp[p].deleted_count = IF pre[p].emp >= 1 THEN 1 ELSE 0

\* A delete has been served for an emp_id that had two Department and two
\* Developers documents.
C10_Witness ==
    \E p \in Procs :
        /\ Served(p, "delete") /\ resp[p].status = 200
        /\ pre[p].dep = 2 /\ pre[p].dev = 2
        /\ Count(Department, input[p].emp_id) = 0
        /\ Count(Developers, input[p].emp_id) = 0

\* ---- C11
\* The number of elements of the sequence seq whose emp_id and emp_name are
\* e and n.
Occurrences(seq, e, n) ==
    Cardinality({i \in 1..Len(seq) : seq[i].emp_id = e /\ seq[i].emp_name = n})

\* The values of field in the rows of coll with emp_id e.
FieldsOf(coll, e, field) == {coll[i][field] : i \in Matching(coll, e)}

\* The joined field x of a list entry for emp_id e: the field of a row of
\* coll with that emp_id, and null when coll has no such row.
JoinedFrom(x, coll, e, field) ==
    IF Matching(coll, e) = {} THEN x = Nil ELSE x \in FieldsOf(coll, e, field)

\* C11: the list answered by getEmployees has one entry per Employee row,
\* with the same emp_id and emp_name as many times as the Employee
\* collection has them; an entry's department is the department_name of a
\* Department row of the same emp_id, or null when there is none, and the
\* same for language and Developers; an emp_id that only Department or
\* Developers rows carry gives no entry.
C11_ListIsLeftJoinOfEmployee ==
    \A p \in Procs :
        (Served(p, "list") /\ resp[p].status = 200)
        => LET list == resp[p].list IN
           /\ Len(list) = Len(Employee)
           /\ \A i \in 1..Len(Employee) :
                 Occurrences(list, Employee[i].emp_id, Employee[i].emp_name)
                 = Occurrences(Employee, Employee[i].emp_id, Employee[i].emp_name)
           /\ \A i \in 1..Len(list) :
                 /\ JoinedFrom(list[i].department, Department,
                               list[i].emp_id, "department_name")
                 /\ JoinedFrom(list[i].language, Developers,
                               list[i].emp_id, "language")
           /\ \A i \in 1..Len(list) : Count(Employee, list[i].emp_id) > 0

\* A list was answered over a store where an employee has no Department row
\* and Department holds rows of another emp_id.
C11_Witness ==
    \E p \in Procs :
        /\ Served(p, "list") /\ resp[p].status = 200
        /\ \E i \in 1..Len(resp[p].list) :
              /\ resp[p].list[i].department = Nil
              /\ Count(Department, resp[p].list[i].emp_id) = 0
        /\ Department # <<>>

\* ---- C12
\* The body is one JSON value and nothing else.
ParseableJSON(body) == body = <<"object">>

\* The path id is written with digits only.
ParsesAsInteger(idStr) ==
    idStr # <<>> /\ \A i \in 1..Len(idStr) : idStr[i] \in {"0", "1", "2"}

\* The request in is malformed: a create or update whose body is not JSON,
\* an update or delete whose path id is not an integer.
Malformed(in) ==
    \/ in.kind = "create" /\ ~ParseableJSON(in.body)
    \/ in.kind = "update" /\ (~ParsesAsInteger(in.idStr) \/ ~ParseableJSON(in.body))
    \/ in.kind = "delete" /\ ~ParsesAsInteger(in.idStr)

\* Goroutine p takes a step of its request in this transition.
StepOf(p) == pc'[p] # "idle" /\ (pc'[p] # pc[p] \/ input'[p] # input[p])

\* C12: no step of a malformed request changes a collection or the
\* allocator counter, and the answer to it is a 400.
C12_MalformedIsRejectedUntouched ==
    [][\A p \in Procs :
          (StepOf(p) /\ Malformed(input'[p]))
          => /\ UNCHANGED <<Employee, Department, Developers, idCounter>>
             /\ pc'[p] = "done" => resp'[p].status = 400]_vars

\* A create whose body is an object followed by text was given an id by
\* nextID, inserted its three rows and was answered 201.
C12_Witness ==
    \E p \in Procs :
        /\ Served(p, "create") /\ Malformed(input[p])
        /\ resp[p].status = 201
        /\ pre[p].auto /\ allocLog # <<>>
        /\ Gained(p) = <<1, 1, 1>>

\* ---- C13
\* The rows of coll whose emp_id is not e, in order.
OtherRows(coll, e) ==
    LET Other(d) == d.emp_id # e IN SelectSeq(coll, Other)

\* This transition leaves every row of an emp_id other than e as it was.
OthersUnchanged(e) ==
    /\ OtherRows(Employee', e) = OtherRows(Employee, e)
    /\ OtherRows(Department', e) = OtherRows(Department, e)
    /\ OtherRows(Developers', e) = OtherRows(Developers, e)

\* The handler of p, in flight, takes a step in this transition.
HandlerStep(p) == ~Idle(p) /\ pc'[p] # pc[p]

\* The request that arrives in this transition is given to p.
Taken(p) == Idle(p) /\ pc'[p] # "idle" /\ reqCount' # reqCount

\* C13: every step of a create, update or delete for emp_id e, up to its
\* answer and also when it ends in an error, leaves the rows of every other
\* emp_id in Employee, Department and Developers as they were; no step of an
\* update or delete changes idCounter.
C13_OtherRowsAndCounterUntouched ==
    [][\A p \in Procs :
          /\ (HandlerStep(p) /\ input[p].kind \in {"create", "update", "delete"})
             => /\ OthersUnchanged(input[p].emp_id)
                /\ input[p].kind \in {"update", "delete"} => idCounter' = idCounter
          /\ (Taken(p) /\ input'[p].kind \in {"create", "update", "delete"})
             => /\ UNCHANGED <<Employee, Department, Developers>>
                /\ input'[p].kind \in {"update", "delete"} => idCounter' = idCounter]_vars

\* A delete removed the Employee row of its emp_id while Employee rows of
\* another emp_id are in the store.
C13_Witness ==
    \E p \in Procs :
        /\ Served(p, "delete") /\ resp[p].status = 200
        /\ resp[p].deleted_count = 1
        /\ OtherRows(Employee, input[p].emp_id) # <<>>
        /\ OtherRows(Department, input[p].emp_id) # <<>>

====
